---- MODULE Spec2Model ----
(***************************************************************************)
(* Task scheduling core of the automation controller.                      *)
(*                                                                         *)
(* Controller side (package tasks): TaskPool.Run's control loop, the       *)
(* resource locker goroutine, TaskPool.blocks, AddTask, StopTask and the   *)
(* TaskRunner goroutines started by the admission pass.                    *)
(*                                                                         *)
(* Runner side (package runners): JobPool.Run's queue tick and request    *)
(* tick, the execution goroutine of a started job, checkNewJobs,           *)
(* sendProgress against Log2, and tryRegisterRunner.                       *)
(*                                                                         *)
(* getNextBuildVersion is an operator on strings, applied by AddTask.      *)
(*                                                                         *)
(* Every goroutine is a process with its own position; a channel send on   *)
(* an unbuffered channel is a rendezvous with the receiver, after which    *)
(* both sides continue concurrently.                                       *)
(***************************************************************************)
EXTENDS Integers, Sequences, FiniteSets, TLC

(* ------------------------------ bounds --------------------------------- *)

\* number of tasks submitted through AddTask
MaxTasks == 2
\* task rows of the store; the rows beyond MaxTasks are used only where
\* tasks keep being submitted
MaxRows == 3
\* largest value of util.Config.MaxParallelTasks explored
MaxGlobalLimit == 2
\* largest value of Project.MaxParallelTasks explored
MaxProjectLimit == 1
\* log lines one task emits (the register line included)
MaxLogs == 2
\* capacity of the logger channel, scaled down from 10000
LoggerCap == 2

\* task ids the controller hands to the runner
MaxJobs == 2
\* jobs waiting in JobPool.queue
MaxJobQueue == 2
\* log records one runner job prints
MaxRecords == 3
\* registration requests the runner makes
MaxPosts == 2
\* goroutines of the request ticks that are inside tryRegisterRunner at a time
MaxCallers == 3
\* length of the version strings
MaxVersionLen == 3
\* runningJob objects the queue tick creates
MaxStarts == 2

Tasks == 1..MaxRows
JobIDs == 1..MaxJobs
Projects == {1, 2}
Templates == {1, 2, 3}
\* Template.ProjectID of the template rows: templates 1 and 2 belong to
\* project 1, template 3 to project 2
TemplateProject(tpl) == IF tpl = 3 THEN 2 ELSE 1

(* --------------------------- db.TaskStatus ------------------------------ *)

TaskWaitingStatus == "waiting"
TaskStartingStatus == "starting"
TaskRunningStatus == "running"
TaskStoppingStatus == "stopping"
TaskStoppedStatus == "stopped"
TaskSuccessStatus == "success"
TaskFailStatus == "error"
\* zero value of a status field that was never written
NoStatus == ""

IsFinished(s) == s \in {TaskStoppedStatus, TaskSuccessStatus, TaskFailStatus}

\* edges of the status graph
AllowedEdges ==
  {<<TaskWaitingStatus, TaskStartingStatus>>, <<TaskWaitingStatus, TaskFailStatus>>,
   <<TaskWaitingStatus, TaskStoppedStatus>>,
   <<TaskStartingStatus, TaskRunningStatus>>, <<TaskStartingStatus, TaskFailStatus>>,
   <<TaskStartingStatus, TaskStoppingStatus>>,
   <<TaskRunningStatus, TaskStoppingStatus>>, <<TaskRunningStatus, TaskSuccessStatus>>,
   <<TaskRunningStatus, TaskFailStatus>>,
   <<TaskStoppingStatus, TaskStoppedStatus>>, <<TaskStoppingStatus, TaskFailStatus>>}

(* ------------------------------ state ----------------------------------- *)

VARIABLES
  MaxParallelTasks,   \* util.Config.MaxParallelTasks
  projectLimit,       \* Project.MaxParallelTasks of every project row
  nextID,             \* id the store gives to the next created task
  taskProject,        \* Task.ProjectID
  taskTemplate,       \* Task.TemplateID (= Template.ID after populateDetails)
  status,             \* TaskRunner.Task.Status, in memory
  dbStatus,           \* status column of the persisted task row
  addPC,              \* position of the AddTask call that created the task
  queue,              \* TaskPool.queue
  activeProj,         \* TaskPool.activeProj: project -> set of task ids
  runningTasks,       \* TaskPool.runningTasks (key set)
  logger,             \* TaskPool.logger, buffered channel of logRecord
  logCount,           \* records a task has sent on logger so far
  outputs,            \* task__output rows, per task, in insertion order
  events,             \* event rows written so far
  loopPC,             \* position of the control loop of TaskPool.Run
  loopTask,           \* task the control loop took from the register channel
  lockRecord,         \* lock record the locker received and has not applied
  unlockPending,      \* tasks with a goroutine blocked sending an unlock record
  runPC,              \* position of the goroutine running TaskRunner.run
  killed,             \* tasks whose Job.Kill was called
  panicked,           \* the locker goroutine panicked: the process is gone
  OneOff,             \* util.Config.Runner.OneOff
  jobQueue,           \* JobPool.queue: the pulled jobs, each with its status
  jobObjs,            \* the runningJob objects created so far, each with the
                      \* position of its execution goroutine
  runningJobs,        \* JobPool.runningJobs: task id -> runningJob (0: none)
  exited,             \* the runner process called os.Exit(0)
  logRecords,         \* runningJob.logRecords of the job that prints
  logEmitted,         \* Log2 calls of that job that have returned
  appendLocal,        \* slice an append in progress read from logRecords
                      \* (<<0>>: no Log2 call is in progress)
  progPC,             \* position of the sendProgress goroutine
  progSnap,           \* JobProgress.LogRecords of the request being built
  snapshots,          \* records of all snapshots taken, in order
  delivered,          \* records of all PUT requests that succeeded
  progStatus,         \* JobProgress.Status of the request being built
  deliveredStatus,    \* Status of the last PUT request that succeeded
  tickPC,             \* position of the control loop inside the request
                      \* tick: "wait" or "check" (sendProgress is started)
  appendJob,          \* job id a checkNewJobs goroutine is appending to
                      \* p.queue (0: none)
  appendQueue,        \* slice that append read from p.queue
  config,             \* JobPool.config is set (the runner config is cached)
  configFile,         \* file at util.Config.Runner.ConfigFile: "absent",
                      \* "valid" or "corrupt" (not a RunnerConfig in JSON)
  RegistrationToken,  \* util.Config.Runner.RegistrationToken is not empty
  regResult,          \* outcome of the last tryRegisterRunner call
  regPosts,           \* POST /runners requests made so far
  regPC,              \* position of each goroutine inside tryRegisterRunner
  regLocal,           \* the RunnerConfig a goroutine parsed from its reply
                      \* (number of the registration, 0: none)
  registrations,      \* POST /runners requests the controller accepted
  cachedConfig,       \* registration whose RunnerConfig p.config points to
                      \* (0: none, or one read from the file)
  regIO,              \* what the environment answers to the next
                      \* tryRegisterRunner call
  startVersion,       \* Template.StartVersion of a build template
  currentVersion,     \* Version of the template's latest build task
  taskVersion,        \* Task.Version that AddTask derived
  templateEnvironment,\* JSON object of the template's environment
  taskEnvironment,    \* JSON object in Task.Environment ("" is the empty
                      \* function here: no key is overridden)
  Environment         \* TaskRunner.Environment.JSON after populateDetails

vars == <<MaxParallelTasks, projectLimit, nextID, taskProject, taskTemplate,
          status, dbStatus, addPC, queue, activeProj, runningTasks, logger,
          logCount, outputs, events, loopPC, loopTask, lockRecord,
          unlockPending, runPC, killed, panicked,
          OneOff, jobQueue, jobObjs, runningJobs, exited,
          logRecords, logEmitted, appendLocal, progPC, progSnap, snapshots,
          delivered, appendJob, appendQueue,
          config, configFile, RegistrationToken, regResult, regPosts, regIO,
          regPC, regLocal, registrations, cachedConfig,
          progStatus, deliveredStatus, tickPC,
          startVersion, currentVersion, taskVersion,
          templateEnvironment, taskEnvironment, Environment>>

\* the state of the runner process
uploadVars == <<progStatus, deliveredStatus, tickPC>>
progressVars == <<logRecords, logEmitted, appendLocal, progPC, progSnap,
                  snapshots, delivered, uploadVars>>
jobVars == <<OneOff, jobQueue, jobObjs, runningJobs, exited>>
pollVars == <<appendJob, appendQueue>>
raceVars == <<regPC, regLocal, registrations, cachedConfig>>
registerVars == <<config, configFile, RegistrationToken, regResult, regPosts,
                  regIO, raceVars>>
runnerVars == <<OneOff, jobQueue, jobObjs, runningJobs, exited, progressVars,
                pollVars, registerVars>>
\* the state of the controller process
poolVars == <<MaxParallelTasks, projectLimit, nextID, taskProject, taskTemplate,
              status, dbStatus, addPC, queue, activeProj, runningTasks, logger,
              logCount, outputs, events, loopPC, loopTask, lockRecord,
              unlockPending, runPC, killed, panicked,
              startVersion, currentVersion, taskVersion,
              templateEnvironment, taskEnvironment, Environment>>

versionVars == <<startVersion, currentVersion, taskVersion>>
envVars == <<templateEnvironment, taskEnvironment, Environment>>
cfgVars == <<MaxParallelTasks, projectLimit, versionVars, envVars>>
taskVars == <<nextID, taskProject, taskTemplate>>
mapVars == <<activeProj, runningTasks>>
logVars == <<logger, logCount, outputs>>

(* ----------------------------- helpers ---------------------------------- *)

\* elements of a sequence
Range(s) == {s[i] : i \in 1..Len(s)}

InQueue(t) == t \in Range(queue)
InActiveProj(t) == \E p \in DOMAIN activeProj : t \in activeProj[p]

\* len(p.activeProj[project]); a missing bucket has length 0
ProjectTasks(p) == IF p \in DOMAIN activeProj THEN activeProj[p] ELSE {}

\* TaskPool.GetTask: the queue first, then runningTasks; 0 is nil
GetTask(id) ==
  IF id \in Range(queue) THEN id
  ELSE IF id \in runningTasks THEN id
  ELSE 0

\* blocks with the global limit compared by > instead of >=
blocks_GlobalOffByOne(t, projErr) ==
  IF Cardinality(runningTasks) > MaxParallelTasks THEN TRUE
  ELSE IF ProjectTasks(taskProject[t]) = {} THEN FALSE
  ELSE IF \E r \in ProjectTasks(taskProject[t]) : taskTemplate[r] = taskTemplate[t] THEN TRUE
  ELSE IF projErr THEN FALSE
  ELSE /\ projectLimit[taskProject[t]] > 0
       /\ Cardinality(ProjectTasks(taskProject[t])) >= projectLimit[taskProject[t]]

\* blocks with the template of the running task compared to the task id
\* (r.Template.ID == t.Task.ID) instead of to the task's template
blocks_WrongTemplateField(t, projErr) ==
  IF Cardinality(runningTasks) >= MaxParallelTasks THEN TRUE
  ELSE IF ProjectTasks(taskProject[t]) = {} THEN FALSE
  ELSE IF \E r \in ProjectTasks(taskProject[t]) : taskTemplate[r] = t + 10 THEN TRUE
  ELSE IF projErr THEN FALSE
  ELSE /\ projectLimit[taskProject[t]] > 0
       /\ Cardinality(ProjectTasks(taskProject[t])) >= projectLimit[taskProject[t]]

\* TaskPool.blocks; projErr is the error result of store.GetProject
blocks(t, projErr) ==
  IF Cardinality(runningTasks) >= MaxParallelTasks THEN TRUE
  ELSE IF ProjectTasks(taskProject[t]) = {} THEN FALSE
  ELSE IF \E r \in ProjectTasks(taskProject[t]) : taskTemplate[r] = taskTemplate[t] THEN TRUE
  ELSE IF projErr THEN FALSE
  ELSE /\ projectLimit[taskProject[t]] > 0
       /\ Cardinality(ProjectTasks(taskProject[t])) >= projectLimit[taskProject[t]]

\* status left by TaskRunner.SetStatus(s) on a runner whose status is cur
SetStatus(cur, s) == IF IsFinished(cur) THEN cur ELSE s

\* TaskRunner.Log: one more record of task t on the logger channel
Log(t) ==
  /\ Len(logger) < LoggerCap
  /\ logger' = Append(logger, <<t, logCount[t] + 1>>)
  /\ logCount' = [logCount EXCEPT ![t] = @ + 1]

(* ------------------------- getNextBuildVersion -------------------------- *)

\* A string is a sequence of characters; the characters explored are a
\* letter, the minus sign and three digits. None of them is a newline, so
\* "." of the pattern matches each of them.
Digits == {"0", "1", "9"}
Alphabet == {"a", "-"} \cup Digits
Strings == UNION {[1..n -> Alphabet] : n \in 0..MaxVersionLen}

\* a nil *string, the value a panicking call leaves, and no value yet
NilVersion == <<"nil">>
PanicVersion == <<"panic">>
NoVersion == <<"unset">>

IsDigits(s) == s # <<>> /\ \A i \in 1..Len(s) : s[i] \in Digits
DigitValue(c) == CASE c = "0" -> 0 [] c = "1" -> 1 [] c = "9" -> 9
DigitChar(d) ==
  CASE d = 0 -> "0" [] d = 1 -> "1" [] d = 2 -> "2" [] d = 3 -> "3"
    [] d = 4 -> "4" [] d = 5 -> "5" [] d = 6 -> "6" [] d = 7 -> "7"
    [] d = 8 -> "8" [] d = 9 -> "9"

RECURSIVE ParseDigits(_)
ParseDigits(s) ==
  IF s = <<>> THEN 0
  ELSE 10 * ParseDigits(SubSeq(s, 1, Len(s) - 1)) + DigitValue(s[Len(s)])

\* strconv.Atoi: an optional sign and one or more digits; the strings
\* explored are too short to leave the range of int
Atoi(s) ==
  IF s # <<>> /\ s[1] \in {"-", "+"}
  THEN IF IsDigits(Tail(s))
       THEN [ok |-> TRUE, val |-> IF s[1] = "-" THEN 0 - ParseDigits(Tail(s))
                                  ELSE ParseDigits(Tail(s))]
       ELSE [ok |-> FALSE, val |-> 0]
  ELSE IF IsDigits(s) THEN [ok |-> TRUE, val |-> ParseDigits(s)]
  ELSE [ok |-> FALSE, val |-> 0]

\* strconv.Itoa
RECURSIVE Itoa(_)
Itoa(n) ==
  IF n < 0 THEN <<"-">> \o Itoa(0 - n)
  ELSE IF n < 10 THEN <<DigitChar(n)>>
  ELSE Itoa(n \div 10) \o <<DigitChar(n % 10)>>

HasPrefix(s, prefix) ==
  Len(prefix) <= Len(s) /\ SubSeq(s, 1, Len(prefix)) = prefix
HasSuffix(s, suffix) ==
  Len(suffix) <= Len(s) /\ SubSeq(s, Len(s) - Len(suffix) + 1, Len(s)) = suffix

\* the ways ^(.*[^\d])?(\d+)([^\d].*)?$ matches s: <<i, j>> with the first
\* group s[1..i] (empty, or ending in a non-digit), the digits s[i+1..j] and
\* the third group s[j+1..] (empty, or starting with a non-digit)
Submatches(s) ==
  {m \in (0..Len(s)) \X (0..Len(s)) :
     /\ m[1] < m[2]
     /\ m[1] = 0 \/ s[m[1]] \notin Digits
     /\ IsDigits(SubSeq(s, m[1] + 1, m[2]))
     /\ m[2] = Len(s) \/ s[m[2] + 1] \notin Digits}

\* re.FindStringSubmatch: the match the greedy operators prefer, the longest
\* first group and then the longest run of digits; <<>> is nil
FindStringSubmatch(s) ==
  IF Submatches(s) = {} THEN <<>>
  ELSE LET m == CHOOSE m \in Submatches(s) :
                  \A o \in Submatches(s) :
                    o[1] < m[1] \/ (o[1] = m[1] /\ o[2] <= m[2])
       IN <<s, SubSeq(s, 1, m[1]), SubSeq(s, m[1] + 1, m[2]),
            SubSeq(s, m[2] + 1, Len(s))>>

\* getNextBuildVersion; the pattern has three groups, so len(m) - 1 is 3
getNextBuildVersion(start, current) ==
  LET m == FindStringSubmatch(start) IN
  IF m = <<>> THEN start
  ELSE LET prefix == m[2]
           body == m[3]
           suffix == m[4]
       IN IF ~HasPrefix(current, prefix) \/ ~HasSuffix(current, suffix)
          THEN start
          ELSE IF Len(prefix) > Len(current) - Len(suffix)
          THEN PanicVersion
          ELSE LET curr == Atoi(SubSeq(current, Len(prefix) + 1,
                                       Len(current) - Len(suffix)))
               IN IF ~curr.ok THEN start
                  ELSE IF ~Atoi(body).ok THEN PanicVersion
                  ELSE prefix
                       \o Itoa(IF Atoi(body).val > curr.val THEN Atoi(body).val
                               ELSE curr.val + 1)
                       \o suffix

\* a template that is not a build: no version is derived
VersionInit ==
  /\ startVersion = <<>>
  /\ currentVersion = NilVersion
  /\ taskVersion = NoVersion

(* ------------------------ environment of a task -------------------------- *)

\* keys and values of the JSON objects
EnvKeys == {"author", "comment", "time"}
EnvValues == {"Denis", "Hello, World!", "Just do it!", "2021-11-02"}
JSONObjects == UNION {[ks -> EnvValues] : ks \in SUBSET EnvKeys}
NoJSON == [none |-> TRUE]

\* the object populateDetails leaves in Environment.JSON: every key of
\* either object, and for a key of both the value that TestPopulateDetails
\* expects, which is the template environment's
MergeEnvironment(tplEnv, tskEnv) ==
  [k \in DOMAIN tplEnv \cup DOMAIN tskEnv |->
     IF k \in DOMAIN tplEnv THEN tplEnv[k] ELSE tskEnv[k]]

\* populateDetails, the part that builds the environment
PopulateDetails ==
  /\ Environment = NoJSON
  /\ Environment' = MergeEnvironment(templateEnvironment, taskEnvironment)
  /\ UNCHANGED <<templateEnvironment, taskEnvironment>>
  /\ UNCHANGED <<MaxParallelTasks, projectLimit, versionVars, nextID,
                 taskProject, taskTemplate, status, dbStatus, addPC, queue,
                 activeProj, runningTasks, logger, logCount, outputs, events,
                 loopPC, loopTask, lockRecord, unlockPending, runPC, killed,
                 panicked, runnerVars>>

\* a task without overrides on a template without environment
EnvInit ==
  /\ templateEnvironment = <<>>
  /\ taskEnvironment = <<>>
  /\ Environment = NoJSON

(* ------------------------------- Init ----------------------------------- *)

\* CreateTaskPool, and the tables before any submission
PoolInit ==
  /\ nextID = 1
  /\ taskProject = [t \in Tasks |-> 0]
  /\ taskTemplate = [t \in Tasks |-> 0]
  /\ status = [t \in Tasks |-> NoStatus]
  /\ dbStatus = [t \in Tasks |-> NoStatus]
  /\ addPC = [t \in Tasks |-> "none"]
  /\ queue = <<>>
  /\ activeProj = <<>>
  /\ runningTasks = {}
  /\ logger = <<>>
  /\ logCount = [t \in Tasks |-> 0]
  /\ outputs = [t \in Tasks |-> <<>>]
  /\ events = {}
  /\ loopPC = "select"
  /\ loopTask = 0
  /\ lockRecord = 0
  /\ unlockPending = {}
  /\ runPC = [t \in Tasks |-> "none"]
  /\ killed = {}
  /\ panicked = FALSE

\* no job has printed and no progress request was made
ProgressInit ==
  /\ logRecords = <<>>
  /\ logEmitted = 0
  /\ appendLocal = <<0>>
  /\ progPC = "idle"
  /\ progSnap = <<>>
  /\ snapshots = <<>>
  /\ delivered = <<>>
  /\ progStatus = NoStatus
  /\ deliveredStatus = NoStatus
  /\ tickPC = "wait"
  /\ appendJob = 0
  /\ appendQueue = <<>>

\* what the environment answers to one tryRegisterRunner call: os.Stat fails
\* with an error other than "not exist", os.ReadFile succeeds,
\* http.NewRequest succeeds, client.Do succeeds, the reply has status 200,
\* its body is read, the body parses as a RunnerConfig, os.WriteFile succeeds
RegisterIO ==
  [statErr : BOOLEAN, readOk : BOOLEAN, reqOk : BOOLEAN, doOk : BOOLEAN,
   status200 : BOOLEAN, bodyOk : BOOLEAN, parseOk : BOOLEAN, writeOk : BOOLEAN]

\* result of a call: what it returns ("true", "false", or "panic"), whether
\* it sent the POST, and the cached config and the config file it leaves
RegisterResult(ret, post, cfg, file) ==
  [ret |-> ret, post |-> post, config |-> cfg, configFile |-> file]

\* goroutines that call tryRegisterRunner: sendProgress and checkNewJobs of
\* one request tick, and sendProgress of the next
Callers == 1..MaxCallers

\* no goroutine is inside tryRegisterRunner
RaceInit ==
  /\ regPC = [g \in Callers |-> "idle"]
  /\ regLocal = [g \in Callers |-> 0]
  /\ registrations = 0
  /\ cachedConfig = 0

\* a runner that holds its config: it registered before
RegisteredInit ==
  /\ RaceInit
  /\ config = TRUE
  /\ configFile = "valid"
  /\ RegistrationToken = TRUE
  /\ regResult = "none"
  /\ regPosts = 0
  /\ regIO = [statErr |-> FALSE, readOk |-> TRUE, reqOk |-> TRUE, doOk |-> TRUE,
              status200 |-> TRUE, bodyOk |-> TRUE, parseOk |-> TRUE,
              writeOk |-> TRUE]

\* the JobPool when Run starts
RunnerInit ==
  /\ ProgressInit
  /\ RegisteredInit
  /\ jobQueue = <<>>
  /\ jobObjs = <<>>
  /\ runningJobs = [id \in JobIDs |-> 0]
  /\ exited = FALSE

\* the controller under every configuration; the runner process is not used
Init ==
  /\ MaxParallelTasks \in 0..MaxGlobalLimit
  /\ projectLimit \in {f \in [Projects -> 0..MaxProjectLimit] : f[2] = 0}
  /\ PoolInit
  /\ VersionInit
  /\ EnvInit
  /\ OneOff = FALSE
  /\ RunnerInit

(* ------------------- TaskRunner (status, log, events) ------------------- *)

\* effect of t.SetStatus(s) on the runner of task t: nothing once finished;
\* otherwise the status is written through to the task row and a task event
\* is created (the release that follows a terminal status is the unlock
\* record run() sends when it ends)
RunnerSetStatus(t, s) ==
  LET new == SetStatus(status[t], s) IN
  /\ status' = [status EXCEPT ![t] = new]
  /\ IF new = status[t]
     THEN UNCHANGED <<dbStatus, events>>
     ELSE /\ dbStatus' = [dbStatus EXCEPT ![t] = new]
          /\ events' = events \cup {<<t, "task">>}

(* ------------------------------ AddTask --------------------------------- *)

\* AddTask up to populateDetails: GetTemplate finds the template in the
\* project, the store creates the row in Waiting; populateOk is the outcome
\* of dependency resolution
AddTaskCreate(tpl, populateOk) ==
  /\ ~panicked
  /\ nextID <= MaxTasks
  /\ nextID' = nextID + 1
  /\ taskProject' = [taskProject EXCEPT ![nextID] = TemplateProject(tpl)]
  /\ taskTemplate' = [taskTemplate EXCEPT ![nextID] = tpl]
  /\ status' = [status EXCEPT ![nextID] = TaskWaitingStatus]
  /\ dbStatus' = [dbStatus EXCEPT ![nextID] = TaskWaitingStatus]
  /\ addPC' = [addPC EXCEPT ![nextID] = IF populateOk THEN "register" ELSE "populateErr"]
  /\ UNCHANGED <<runnerVars, cfgVars, queue, mapVars, logVars, events, loopPC, loopTask,
                 lockRecord, unlockPending, runPC, killed, panicked>>

\* One more successful AddTask, where tasks keep being submitted: the new
\* task is written in the row of a task that has left the pool for good
\* (finished, run() ended, unlock record processed, no log record pending),
\* which stands for a row with a fresh id.
AddTaskAgain(t, tpl) ==
  /\ ~panicked
  /\ addPC[t] = "done"
  /\ runPC[t] = "done"
  /\ IsFinished(status[t])
  /\ GetTask(t) = 0
  /\ ~InActiveProj(t)
  /\ t \notin unlockPending
  /\ lockRecord # t
  /\ loopTask # t
  /\ \A i \in 1..Len(logger) : logger[i][1] # t
  /\ taskProject' = [taskProject EXCEPT ![t] = TemplateProject(tpl)]
  /\ taskTemplate' = [taskTemplate EXCEPT ![t] = tpl]
  /\ status' = [status EXCEPT ![t] = TaskWaitingStatus]
  /\ dbStatus' = [dbStatus EXCEPT ![t] = TaskWaitingStatus]
  /\ addPC' = [addPC EXCEPT ![t] = "register"]
  /\ runPC' = [runPC EXCEPT ![t] = "none"]
  /\ logCount' = [logCount EXCEPT ![t] = 0]
  /\ outputs' = [outputs EXCEPT ![t] = <<>>]
  /\ events' = {e \in events : e[1] # t}
  /\ killed' = killed \ {t}
  /\ UNCHANGED <<runnerVars, cfgVars, nextID, queue, mapVars, logger, loopPC,
                 loopTask, lockRecord, unlockPending, panicked>>

\* AddTask without the return that follows SetStatus(TaskFailStatus): the
\* failed runner goes on to the register send
AddTaskFail_FallsThrough(t) ==
  /\ ~panicked
  /\ addPC[t] = "populateErr"
  /\ Log(t)
  /\ RunnerSetStatus(t, TaskFailStatus)
  /\ addPC' = [addPC EXCEPT ![t] = "register"]
  /\ UNCHANGED <<runnerVars, cfgVars, taskVars, queue, mapVars, outputs, loopPC, loopTask,
                 lockRecord, unlockPending, runPC, killed, panicked>>

\* AddTask after populateDetails failed: log the error, mark the runner
\* Fail, return the error; the runner is not sent on register
AddTaskFail(t) ==
  /\ ~panicked
  /\ addPC[t] = "populateErr"
  /\ Log(t)
  /\ RunnerSetStatus(t, TaskFailStatus)
  /\ addPC' = [addPC EXCEPT ![t] = "failed"]
  /\ UNCHANGED <<runnerVars, cfgVars, taskVars, queue, mapVars, outputs, loopPC, loopTask,
                 lockRecord, unlockPending, runPC, killed, panicked>>

\* AddTask for a build template: the version of the new task, from the
\* template's start version and the version of its latest build
AddTaskVersion ==
  /\ taskVersion = NoVersion
  /\ taskVersion' = IF currentVersion = NilVersion THEN startVersion
                    ELSE getNextBuildVersion(startVersion, currentVersion)
  /\ UNCHANGED <<runnerVars, MaxParallelTasks, projectLimit, taskVars, status,
                 dbStatus, addPC, queue, mapVars, logVars, events, loopPC,
                 loopTask, lockRecord, unlockPending, runPC, killed, panicked,
                 startVersion, currentVersion, envVars>>

(* ------------------------ TaskPool.Run: the loop ------------------------ *)

\* the logger case writing each record from a goroutine of its own, so that
\* any buffered record may reach the store first
LoggerCase_Unordered(writeErr) ==
  /\ ~panicked
  /\ loopPC = "select"
  /\ logger # <<>>
  /\ \E i \in 1..Len(logger) :
       /\ logger' = [k \in 1..(Len(logger) - 1) |->
                       IF k < i THEN logger[k] ELSE logger[k + 1]]
       /\ outputs' = IF writeErr THEN outputs
                     ELSE [outputs EXCEPT ![logger[i][1]] = Append(@, logger[i][2])]
  /\ UNCHANGED <<runnerVars, cfgVars, taskVars, status, dbStatus, addPC, queue, mapVars,
                 logCount, events, loopPC, loopTask, lockRecord, unlockPending,
                 runPC, killed, panicked>>

\* case record := <-p.logger; writeErr is the error of CreateTaskOutput,
\* which is logged and swallowed
LoggerCase(writeErr) ==
  /\ ~panicked
  /\ loopPC = "select"
  /\ logger # <<>>
  /\ logger' = Tail(logger)
  /\ outputs' = IF writeErr THEN outputs
                ELSE [outputs EXCEPT ![Head(logger)[1]] = Append(@, Head(logger)[2])]
  /\ UNCHANGED <<runnerVars, cfgVars, taskVars, status, dbStatus, addPC, queue, mapVars,
                 logCount, events, loopPC, loopTask, lockRecord, unlockPending,
                 runPC, killed, panicked>>

\* case task := <-p.register: the rendezvous with AddTask's send, after
\* which AddTask writes the "queued" event and returns
RegisterCase(t) ==
  /\ ~panicked
  /\ loopPC = "select"
  /\ addPC[t] = "register"
  /\ addPC' = [addPC EXCEPT ![t] = "done"]
  /\ events' = events \cup {<<t, "queued">>}
  /\ loopPC' = "register"
  /\ loopTask' = t
  /\ UNCHANGED <<runnerVars, cfgVars, taskVars, status, dbStatus, queue, mapVars, logVars,
                 lockRecord, unlockPending, runPC, killed, panicked>>

\* register handler: p.queue = append(p.queue, task)
RegisterAppend ==
  /\ ~panicked
  /\ loopPC = "register"
  /\ queue' = Append(queue, loopTask)
  /\ loopPC' = "registerLog"
  /\ UNCHANGED <<runnerVars, cfgVars, taskVars, status, dbStatus, addPC, mapVars, logVars,
                 events, loopTask, lockRecord, unlockPending, runPC, killed,
                 panicked>>

\* register handler: task.Log(msg), a send on logger that waits for room,
\* then task.saveStatus()
RegisterLog ==
  /\ ~panicked
  /\ loopPC = "registerLog"
  /\ Log(loopTask)
  /\ dbStatus' = [dbStatus EXCEPT ![loopTask] = status[loopTask]]
  /\ loopPC' = "select"
  /\ loopTask' = 0
  /\ UNCHANGED <<runnerVars, cfgVars, taskVars, status, addPC, queue, mapVars, outputs,
                 events, lockRecord, unlockPending, runPC, killed, panicked>>

\* the ticker case dropping a blocked head where it should move it to the
\* end of the queue
Tick_DropsBlocked(projErr) ==
  /\ ~panicked
  /\ loopPC = "select"
  /\ IF queue = <<>>
     THEN UNCHANGED <<queue, loopPC>>
     ELSE IF status[Head(queue)] = TaskFailStatus \/ blocks(Head(queue), projErr)
     THEN /\ queue' = Tail(queue)
          /\ UNCHANGED loopPC
     ELSE /\ loopPC' = "lockSend"
          /\ UNCHANGED queue
  /\ UNCHANGED <<runnerVars, cfgVars, taskVars, status, dbStatus, addPC, mapVars, logVars,
                 events, loopTask, lockRecord, unlockPending, runPC, killed,
                 panicked>>

\* case <-ticker.C, up to the decision on the queue head; projErr is the
\* error result of store.GetProject inside blocks
Tick(projErr) ==
  /\ ~panicked
  /\ loopPC = "select"
  /\ IF queue = <<>>
     THEN UNCHANGED <<queue, loopPC>>
     ELSE IF status[Head(queue)] = TaskFailStatus
     THEN /\ queue' = Tail(queue)
          /\ UNCHANGED loopPC
     ELSE IF blocks(Head(queue), projErr)
     THEN /\ queue' = Append(Tail(queue), Head(queue))
          /\ UNCHANGED loopPC
     ELSE /\ loopPC' = "lockSend"
          /\ UNCHANGED queue
  /\ UNCHANGED <<runnerVars, cfgVars, taskVars, status, dbStatus, addPC, mapVars, logVars,
                 events, loopTask, lockRecord, unlockPending, runPC, killed,
                 panicked>>

\* p.resourceLocker <- &resourceLock{lock: true, holder: t}: completes when
\* the locker goroutine is back at its receive
SendLock ==
  /\ ~panicked
  /\ loopPC = "lockSend"
  /\ lockRecord = 0
  /\ lockRecord' = Head(queue)
  /\ loopPC' = "admit"
  /\ UNCHANGED <<runnerVars, cfgVars, taskVars, status, dbStatus, addPC, queue, mapVars,
                 logVars, events, loopTask, unlockPending, runPC, killed,
                 panicked>>

\* go t.run(); p.queue = p.queue[1:]
StartRun ==
  /\ ~panicked
  /\ loopPC = "admit"
  /\ runPC' = [runPC EXCEPT ![Head(queue)] = "start"]
  /\ queue' = Tail(queue)
  /\ loopPC' = "select"
  /\ UNCHANGED <<runnerVars, cfgVars, taskVars, status, dbStatus, addPC, mapVars, logVars,
                 events, loopTask, lockRecord, unlockPending, killed, panicked>>

(* --------------------- TaskPool.Run: resource locker -------------------- *)

\* the locker applies a lock record: panic if blocks(holder), else insert
\* the holder into activeProj[project] and runningTasks
LockerLock(projErr) ==
  /\ ~panicked
  /\ lockRecord # 0
  /\ IF blocks(lockRecord, projErr)
     THEN /\ panicked' = TRUE
          /\ UNCHANGED <<mapVars, lockRecord>>
     ELSE /\ activeProj' =
               [p \in DOMAIN activeProj \cup {taskProject[lockRecord]} |->
                  IF p = taskProject[lockRecord]
                  THEN ProjectTasks(p) \cup {lockRecord}
                  ELSE activeProj[p]]
          /\ runningTasks' = runningTasks \cup {lockRecord}
          /\ lockRecord' = 0
          /\ UNCHANGED panicked
  /\ UNCHANGED <<runnerVars, cfgVars, taskVars, status, dbStatus, addPC, queue, logVars,
                 events, loopPC, loopTask, unlockPending, runPC, killed>>

\* the locker taking an unlock record while it still holds a lock record
\* it has not applied
LockerUnlock_OvertakesLock(t) ==
  /\ ~panicked
  /\ t \in unlockPending
  /\ unlockPending' = unlockPending \ {t}
  /\ activeProj' =
       IF t \in ProjectTasks(taskProject[t])
       THEN [p \in {q \in DOMAIN activeProj :
                      q # taskProject[t] \/ activeProj[q] # {t}} |->
               IF p = taskProject[t] THEN activeProj[p] \ {t} ELSE activeProj[p]]
       ELSE activeProj
  /\ runningTasks' = runningTasks \ {t}
  /\ UNCHANGED <<runnerVars, cfgVars, taskVars, status, dbStatus, addPC, queue, logVars,
                 events, loopPC, loopTask, lockRecord, runPC, killed, panicked>>

\* the locker applying an unlock record without pruning the bucket it
\* emptied
LockerUnlock_KeepsEmptyBucket(t) ==
  /\ ~panicked
  /\ lockRecord = 0
  /\ t \in unlockPending
  /\ unlockPending' = unlockPending \ {t}
  /\ activeProj' =
       [p \in DOMAIN activeProj |->
          IF p = taskProject[t] THEN activeProj[p] \ {t} ELSE activeProj[p]]
  /\ runningTasks' = runningTasks \ {t}
  /\ UNCHANGED <<runnerVars, cfgVars, taskVars, status, dbStatus, addPC, queue, logVars,
                 events, loopPC, loopTask, lockRecord, runPC, killed, panicked>>

\* the locker receives and applies an unlock record: remove the holder from
\* its project bucket, prune the bucket when empty, remove from runningTasks
LockerUnlock(t) ==
  /\ ~panicked
  /\ lockRecord = 0
  /\ t \in unlockPending
  /\ unlockPending' = unlockPending \ {t}
  /\ activeProj' =
       IF t \in ProjectTasks(taskProject[t])
       THEN [p \in {q \in DOMAIN activeProj :
                      q # taskProject[t] \/ activeProj[q] # {t}} |->
               IF p = taskProject[t] THEN activeProj[p] \ {t} ELSE activeProj[p]]
       ELSE activeProj
  /\ runningTasks' = runningTasks \ {t}
  /\ UNCHANGED <<runnerVars, cfgVars, taskVars, status, dbStatus, addPC, queue, logVars,
                 events, loopPC, loopTask, lockRecord, runPC, killed, panicked>>

(* --------------------------- TaskRunner.run ----------------------------- *)

\* a caller outside the control loop builds a TaskRunner for a task row of
\* template tpl and calls run() on it: the task was never registered,
\* queued or locked, and its status is the row's empty status
RunWithoutAdmission(tpl) ==
  /\ ~panicked
  /\ nextID <= MaxTasks
  /\ nextID' = nextID + 1
  /\ taskProject' = [taskProject EXCEPT ![nextID] = TemplateProject(tpl)]
  /\ taskTemplate' = [taskTemplate EXCEPT ![nextID] = tpl]
  /\ runPC' = [runPC EXCEPT ![nextID] = "start"]
  /\ UNCHANGED <<runnerVars, cfgVars, status, dbStatus, addPC, queue, mapVars, logVars,
                 events, loopPC, loopTask, lockRecord, unlockPending, killed,
                 panicked>>

\* run() begins: a Waiting task becomes Starting and the Job is invoked; a
\* task stopped while it was queued ends at once (Stopping becomes Stopped)
RunStart(t) ==
  /\ ~panicked
  /\ runPC[t] = "start"
  /\ IF status[t] = TaskWaitingStatus
     THEN /\ RunnerSetStatus(t, TaskStartingStatus)
          /\ runPC' = [runPC EXCEPT ![t] = "job"]
          /\ UNCHANGED unlockPending
     ELSE /\ status' = [status EXCEPT ![t] = SetStatus(@, TaskStoppedStatus)]
          /\ dbStatus' = [dbStatus EXCEPT ![t] = SetStatus(status[t], TaskStoppedStatus)]
          /\ events' = events \cup {<<t, "task">>}
          /\ unlockPending' = unlockPending \cup {t}
          /\ runPC' = [runPC EXCEPT ![t] = "done"]
  /\ UNCHANGED <<runnerVars, cfgVars, taskVars, addPC, queue, mapVars, logVars, loopPC,
                 loopTask, lockRecord, killed, panicked>>

\* the Job reports Running through its Logger once the task is started
JobSetRunning(t) ==
  /\ ~panicked
  /\ runPC[t] = "job"
  /\ status[t] = TaskStartingStatus
  /\ RunnerSetStatus(t, TaskRunningStatus)
  /\ UNCHANGED <<runnerVars, cfgVars, taskVars, addPC, queue, mapVars, logVars, loopPC,
                 loopTask, lockRecord, unlockPending, runPC, killed, panicked>>

\* the Job pushes one output line to its Logger
JobLog(t) ==
  /\ ~panicked
  /\ runPC[t] = "job"
  /\ logCount[t] < MaxLogs
  /\ Log(t)
  /\ UNCHANGED <<runnerVars, cfgVars, taskVars, status, dbStatus, addPC, queue, mapVars,
                 outputs, events, loopPC, loopTask, lockRecord, unlockPending,
                 runPC, killed, panicked>>

\* Job.Run returns (err: with an error); run() makes the final status
\* transition, writes the end event and releases the resource lock
JobExit(t, err) ==
  /\ ~panicked
  /\ runPC[t] = "job"
  /\ ~err => status[t] # TaskStartingStatus
  /\ LET final == IF status[t] = TaskStoppingStatus THEN TaskStoppedStatus
                  ELSE IF err THEN TaskFailStatus
                  ELSE TaskSuccessStatus
         new == SetStatus(status[t], final)
     IN /\ status' = [status EXCEPT ![t] = new]
        /\ dbStatus' = [dbStatus EXCEPT ![t] = new]
  /\ events' = events \cup {<<t, "task">>}
  /\ unlockPending' = unlockPending \cup {t}
  /\ runPC' = [runPC EXCEPT ![t] = "done"]
  /\ UNCHANGED <<runnerVars, cfgVars, taskVars, addPC, queue, mapVars, logVars, loopPC,
                 loopTask, lockRecord, killed, panicked>>

(* ------------------------------ StopTask -------------------------------- *)

\* StopTask(targetTask, forceStop) on task t; targetTask is the persisted
\* row, populateOk the outcome of populateDetails on the not-active path.

\* the error StopTask returns: only a failed populateDetails on the
\* not-active path is one
StopTaskErr(t, populateOk) == GetTask(t) = 0 /\ ~populateOk

\* StopTask going on to SetStatus after populateDetails failed
StopTaskStatus_IgnoresErr(t, forceStop, populateOk) ==
  IF GetTask(t) = 0
  THEN SetStatus(dbStatus[t], TaskStoppedStatus)
  ELSE SetStatus(status[t], IF forceStop THEN TaskStoppedStatus
                            ELSE TaskStoppingStatus)

\* StopTask turning a graceful stop of a task that is already Stopping into
\* a forced one
StopTaskStatus_Escalates(t, forceStop, populateOk) ==
  IF GetTask(t) = 0
  THEN IF ~populateOk THEN dbStatus[t]
       ELSE SetStatus(dbStatus[t], TaskStoppedStatus)
  ELSE SetStatus(status[t],
                 IF forceStop \/ status[t] = TaskStoppingStatus
                 THEN TaskStoppedStatus ELSE TaskStoppingStatus)

\* status of the runner StopTask works on, after its SetStatus call; on the
\* not-active path that runner is a fresh one built from the persisted row
StopTaskStatus(t, forceStop, populateOk) ==
  IF GetTask(t) = 0
  THEN IF ~populateOk THEN dbStatus[t]
       ELSE SetStatus(dbStatus[t], TaskStoppedStatus)
  ELSE SetStatus(status[t], IF forceStop THEN TaskStoppedStatus
                            ELSE TaskStoppingStatus)

\* event rows after StopTask: createTaskEvent on the not-active path, the
\* event of a status change on the active one
StopTaskEvents(t, forceStop, populateOk) ==
  IF GetTask(t) = 0
  THEN IF ~populateOk THEN events ELSE events \cup {<<t, "task">>}
  ELSE IF StopTaskStatus(t, forceStop, populateOk) = status[t] THEN events
       ELSE events \cup {<<t, "task">>}

\* whether StopTask calls tsk.kill(): the task was found and was Running
StopTaskKills(t) == GetTask(t) # 0 /\ status[t] = TaskRunningStatus

StopTask(t, forceStop, populateOk) ==
  /\ ~panicked
  /\ dbStatus[t] # NoStatus
  /\ IF GetTask(t) = 0
     THEN /\ dbStatus' = [dbStatus EXCEPT ![t] = StopTaskStatus(t, forceStop, populateOk)]
          /\ UNCHANGED status
     ELSE /\ status' = [status EXCEPT ![t] = StopTaskStatus(t, forceStop, populateOk)]
          /\ dbStatus' = [dbStatus EXCEPT ![t] =
                            IF StopTaskStatus(t, forceStop, populateOk) = status[t]
                            THEN @ ELSE StopTaskStatus(t, forceStop, populateOk)]
  /\ events' = StopTaskEvents(t, forceStop, populateOk)
  /\ killed' = IF StopTaskKills(t) THEN killed \cup {t} ELSE killed
  /\ UNCHANGED <<runnerVars, cfgVars, taskVars, addPC, queue, mapVars, logVars, loopPC,
                 loopTask, lockRecord, unlockPending, runPC, panicked>>

(* ------------------------- JobPool (runner side) ------------------------ *)

\* statuses the controller reports for a job in current_jobs
CurrentJobStatuses == {TaskRunningStatus, TaskStoppingStatus, TaskStoppedStatus}

\* JobPool.hasRunningJobs
hasRunningJobs ==
  \E id \in JobIDs : runningJobs[id] # 0 /\ ~IsFinished(jobObjs[runningJobs[id]].status)

\* runningJob.SetStatus: an unconditional assignment
JobSetStatus(k, s) == [jobObjs EXCEPT ![k].status = s]

\* job ids of new_jobs that checkNewJobs enqueues, in the order of the reply
NewJobsToQueue(newJobs) ==
  SelectSeq(newJobs, LAMBDA id : runningJobs[id] = 0)

\* the current_jobs loop body with job.Kill() called for Stopped only
ApplyCurrentJob_KillOnStoppedOnly(objs, cur) ==
  IF runningJobs[cur[1]] = 0 THEN objs
  ELSE LET k == runningJobs[cur[1]]
           set == [objs EXCEPT ![k].status = cur[2]]
       IN IF set[k].status = TaskStoppedStatus
          THEN [set EXCEPT ![k].killed = TRUE]
          ELSE set

\* checkNewJobs, body of the current_jobs loop on the entry cur = <<id,
\* status>>: skip an id that is not in runningJobs; else SetStatus, then
\* job.Kill() if the status now is Stopping or Stopped
ApplyCurrentJob(objs, cur) ==
  IF runningJobs[cur[1]] = 0 THEN objs
  ELSE LET k == runningJobs[cur[1]]
           set == [objs EXCEPT ![k].status = cur[2]]
       IN IF set[k].status \in {TaskStoppingStatus, TaskStoppedStatus}
          THEN [set EXCEPT ![k].killed = TRUE]
          ELSE set

\* checkNewJobs, the current_jobs loop over the entries in reply order
RECURSIVE ApplyCurrentJobs(_, _)
ApplyCurrentJobs(objs, curs) ==
  IF curs = <<>> THEN objs
  ELSE ApplyCurrentJobs(ApplyCurrentJob(objs, Head(curs)), Tail(curs))

\* checkNewJobs on one reply of GET /runners/<id>: curs is the current_jobs
\* list of the reply, newJobs its new_jobs
checkNewJobs(curs, newJobs) ==
  /\ ~exited
  /\ jobObjs' = ApplyCurrentJobs(jobObjs, curs)
  /\ IF OneOff /\ (Len(jobQueue) > 0 \/ \E id \in JobIDs : runningJobs[id] # 0)
     THEN UNCHANGED jobQueue
     ELSE /\ Len(jobQueue) + Len(NewJobsToQueue(newJobs)) <= MaxJobQueue
          /\ jobQueue' = jobQueue \o
               [i \in 1..Len(NewJobsToQueue(newJobs)) |->
                  [id |-> NewJobsToQueue(newJobs)[i], status |-> NoStatus]]
  /\ UNCHANGED <<poolVars, progressVars, pollVars, registerVars, OneOff, runningJobs, exited>>

\* case <-queueTicker.C: drop a failed head, else create the runningJob of
\* the head, start its execution goroutine and remove the head
QueueTick ==
  /\ ~exited
  /\ IF jobQueue = <<>>
     THEN UNCHANGED <<jobQueue, jobObjs, runningJobs>>
     ELSE IF Head(jobQueue).status = TaskFailStatus
     THEN /\ jobQueue' = Tail(jobQueue)
          /\ UNCHANGED <<jobObjs, runningJobs>>
     ELSE /\ Len(jobObjs) < MaxStarts
          /\ jobObjs' = Append(jobObjs, [id |-> Head(jobQueue).id,
                                         status |-> NoStatus,
                                         killed |-> FALSE,
                                         pc |-> "start"])
          /\ runningJobs' = [runningJobs EXCEPT ![Head(jobQueue).id] = Len(jobObjs) + 1]
          /\ jobQueue' = Tail(jobQueue)
  /\ UNCHANGED <<poolVars, progressVars, pollVars, registerVars, OneOff, exited>>

\* case <-requestTimer.C, between the two go statements: a one-off runner
\* that has jobs in runningJobs, none of them unfinished, exits with code 0
RequestTickExit ==
  /\ ~exited
  /\ OneOff
  /\ \E id \in JobIDs : runningJobs[id] # 0
  /\ ~hasRunningJobs
  /\ exited' = TRUE
  /\ UNCHANGED <<poolVars, progressVars, pollVars, registerVars, OneOff, jobQueue, jobObjs, runningJobs>>

\* execution goroutine: runningJob.SetStatus(db.TaskRunningStatus), then
\* job.Run is entered
ExecStart(k) ==
  /\ ~exited
  /\ k \in 1..Len(jobObjs)
  /\ jobObjs[k].pc = "start"
  /\ jobObjs' = [JobSetStatus(k, TaskRunningStatus) EXCEPT ![k].pc = "run"]
  /\ UNCHANGED <<poolVars, progressVars, pollVars, registerVars, OneOff, jobQueue, runningJobs, exited>>

\* status the execution goroutine leaves when job.Run returned
ExecFinalStatus(cur, err) ==
  IF IsFinished(cur) THEN cur
  ELSE IF err
       THEN IF cur = TaskStoppingStatus THEN TaskStoppedStatus ELSE TaskFailStatus
       ELSE TaskSuccessStatus

\* execution goroutine: job.Run returns (err: with an error) and the final
\* status is set
ExecReturn(k, err) ==
  /\ ~exited
  /\ k \in 1..Len(jobObjs)
  /\ jobObjs[k].pc = "run"
  /\ jobObjs' = [JobSetStatus(k, ExecFinalStatus(jobObjs[k].status, err))
                   EXCEPT ![k].pc = "done"]
  /\ UNCHANGED <<poolVars, progressVars, pollVars, registerVars, OneOff, jobQueue, runningJobs, exited>>

(* ------------------- runner: log buffer and progress -------------------- *)

\* The job of runningJob object 1 prints through Log2 while it is inside
\* job.Run; sendProgress runs in a goroutine of its own. The statements of
\* both are steps of their own: nothing orders them.

\* runningJob.Log2, the read of p.logRecords by append
Log2Read ==
  /\ ~exited
  /\ Len(jobObjs) >= 1 /\ jobObjs[1].pc = "run"
  /\ appendLocal = <<0>>
  /\ logEmitted < MaxRecords
  /\ appendLocal' = logRecords
  /\ UNCHANGED <<poolVars, jobVars, pollVars, registerVars, logRecords, logEmitted, progPC, progSnap,
                 snapshots, delivered, uploadVars>>

\* runningJob.Log2, the assignment of the appended slice to p.logRecords
Log2Write ==
  /\ ~exited
  /\ appendLocal # <<0>>
  /\ logRecords' = Append(appendLocal, logEmitted + 1)
  /\ logEmitted' = logEmitted + 1
  /\ appendLocal' = <<0>>
  /\ UNCHANGED <<poolVars, jobVars, pollVars, registerVars, progPC, progSnap, snapshots, delivered,
                 uploadVars>>

\* sendProgress, by a goroutine at position pc: LogRecords: j.logRecords
\* and Status: j.status, the snapshot put in the body
ProgressSnapshotFrom(pc) ==
  /\ ~exited
  /\ progPC = pc
  /\ runningJobs[1] # 0
  /\ progSnap' = logRecords
  /\ progStatus' = jobObjs[runningJobs[1]].status
  /\ progPC' = "reset"
  /\ UNCHANGED <<poolVars, jobVars, pollVars, registerVars, logRecords, logEmitted, appendLocal,
                 snapshots, delivered, deliveredStatus, tickPC>>

\* sendProgress of a request tick, the go statement and the snapshot at once
ProgressSnapshot == ProgressSnapshotFrom("idle")

\* sendProgress: j.logRecords = make([]LogRecord, 0)
ProgressReset ==
  /\ ~exited
  /\ progPC = "reset"
  /\ logRecords' = <<>>
  /\ snapshots' = snapshots \o progSnap
  /\ progPC' = "put"
  /\ UNCHANGED <<poolVars, jobVars, pollVars, registerVars, logEmitted, appendLocal, progSnap, delivered,
                 uploadVars>>

\* sendProgress: client.Do(req) and return; putOk is the outcome of the PUT,
\* whose error is printed and dropped
ProgressPut(putOk) ==
  /\ ~exited
  /\ progPC = "put"
  /\ delivered' = IF putOk THEN delivered \o progSnap ELSE delivered
  /\ deliveredStatus' = IF putOk THEN progStatus ELSE deliveredStatus
  /\ progSnap' = <<>>
  /\ progPC' = "idle"
  /\ UNCHANGED <<poolVars, jobVars, pollVars, registerVars, logRecords, logEmitted, appendLocal, snapshots,
                 progStatus, tickPC>>

\* The request tick of a one-off runner, statement by statement: the
\* goroutine that go p.sendProgress() starts runs beside the control loop.

\* case <-requestTimer.C: go p.sendProgress()
RequestTickGo ==
  /\ ~exited
  /\ tickPC = "wait"
  /\ progPC = "idle"
  /\ progPC' = "go"
  /\ tickPC' = "check"
  /\ UNCHANGED <<poolVars, jobVars, pollVars, registerVars, logRecords, logEmitted, appendLocal, progSnap,
                 snapshots, delivered, progStatus, deliveredStatus>>

\* the rest of the request tick: a one-off runner that has jobs in
\* runningJobs, none of them unfinished, exits with code 0; otherwise
\* go p.checkNewJobs() and the tick is over
RequestTickCheck ==
  /\ ~exited
  /\ tickPC = "check"
  /\ IF OneOff /\ (\E id \in JobIDs : runningJobs[id] # 0) /\ ~hasRunningJobs
     THEN /\ exited' = TRUE
          /\ UNCHANGED tickPC
     ELSE /\ tickPC' = "wait"
          /\ UNCHANGED exited
  /\ UNCHANGED <<poolVars, pollVars, registerVars, OneOff, jobQueue, jobObjs, runningJobs,
                 logRecords, logEmitted, appendLocal, progPC, progSnap,
                 snapshots, delivered, progStatus, deliveredStatus>>

\* the sendProgress goroutine of a request tick begins: the snapshot of the
\* job in runningJobs
SendProgressGo == ProgressSnapshotFrom("go")

\* the sendProgress goroutine of a request tick while runningJobs is empty:
\* a PUT that carries no job
SendProgressEmpty ==
  /\ ~exited
  /\ progPC = "go"
  /\ runningJobs[1] = 0
  /\ progPC' = "idle"
  /\ UNCHANGED <<poolVars, jobVars, pollVars, registerVars, logRecords, logEmitted, appendLocal, progSnap,
                 snapshots, delivered, uploadVars>>

(* ------------- runner: checkNewJobs in a goroutine of its own ----------- *)

\* The request tick starts checkNewJobs with a go statement, so its
\* p.queue = append(p.queue, &taskRunner) runs beside the queue tick of the
\* control loop; the read of p.queue and the assignment are two steps.

\* checkNewJobs, new_jobs loop on job id of the reply: the job is not in
\* runningJobs, and append reads p.queue
PollAppendRead(id) ==
  /\ ~exited
  /\ ~OneOff
  /\ appendJob = 0
  /\ runningJobs[id] = 0
  /\ Len(jobQueue) < MaxJobQueue
  /\ appendJob' = id
  /\ appendQueue' = jobQueue
  /\ UNCHANGED <<poolVars, jobVars, progressVars, registerVars>>

\* checkNewJobs, new_jobs loop: the appended slice is assigned to p.queue
PollAppendWrite ==
  /\ ~exited
  /\ appendJob # 0
  /\ jobQueue' = Append(appendQueue, [id |-> appendJob, status |-> NoStatus])
  /\ appendJob' = 0
  /\ appendQueue' = <<>>
  /\ UNCHANGED <<poolVars, progressVars, registerVars, OneOff, jobObjs, runningJobs, exited>>

(* ---------------------- runner: tryRegisterRunner ---------------------- *)

\* JobPool.tryRegisterRunner
tryRegisterRunner(io) ==
  IF config THEN RegisterResult("true", FALSE, config, configFile)
  ELSE IF ~io.statErr /\ configFile # "absent"
  THEN IF ~io.readOk \/ configFile = "corrupt"
       THEN RegisterResult("panic", FALSE, config, configFile)
       ELSE RegisterResult("true", FALSE, TRUE, configFile)
  ELSE IF io.statErr THEN RegisterResult("panic", FALSE, config, configFile)
  ELSE IF ~RegistrationToken THEN RegisterResult("panic", FALSE, config, configFile)
  ELSE IF ~io.reqOk THEN RegisterResult("false", FALSE, config, configFile)
  ELSE IF ~io.doOk \/ ~io.status200 \/ ~io.bodyOk \/ ~io.parseOk
  THEN RegisterResult("false", TRUE, config, configFile)
  ELSE RegisterResult("true", TRUE, TRUE,
                      IF io.writeOk THEN "valid" ELSE configFile)

\* one call of tryRegisterRunner, by sendProgress or by checkNewJobs, under
\* the answers regIO; the answers to the next call are open
Register ==
  /\ regResult # "panic"
  /\ regPosts + (IF tryRegisterRunner(regIO).post THEN 1 ELSE 0) <= MaxPosts
  /\ regResult' = tryRegisterRunner(regIO).ret
  /\ regPosts' = regPosts + (IF tryRegisterRunner(regIO).post THEN 1 ELSE 0)
  /\ config' = tryRegisterRunner(regIO).config
  /\ configFile' = tryRegisterRunner(regIO).configFile
  /\ regIO' \in RegisterIO
  /\ UNCHANGED <<poolVars, jobVars, progressVars, pollVars, RegistrationToken,
                 raceVars>>

\* tryRegisterRunner as the goroutines of the request ticks run it: the
\* statements of a call are steps of their own, and nothing orders the
\* calls of sendProgress and checkNewJobs.

\* a call begins: p.config != nil returns true; else os.Stat finds the file
\* and the call caches what it reads, or finds none and goes on to the POST
RegisterEnter(g) ==
  /\ regPC[g] = "idle"
  /\ regResult # "panic"
  /\ regPosts < MaxPosts
  /\ IF config
     THEN /\ regResult' = "true"
          /\ UNCHANGED <<regPC, config, cachedConfig>>
     ELSE IF configFile = "valid"
     THEN /\ config' = TRUE
          /\ cachedConfig' = 0
          /\ regResult' = "true"
          /\ UNCHANGED regPC
     ELSE IF configFile = "corrupt" \/ ~RegistrationToken
     THEN /\ regResult' = "panic"
          /\ UNCHANGED <<regPC, config, cachedConfig>>
     ELSE /\ regPC' = [regPC EXCEPT ![g] = "post"]
          /\ UNCHANGED <<config, cachedConfig, regResult>>
  /\ UNCHANGED <<poolVars, jobVars, progressVars, pollVars, configFile,
                 RegistrationToken, regPosts, regIO, regLocal, registrations>>

\* client.Do and the parse of the reply: with ok the controller registers
\* one more runner and the call holds its RunnerConfig; otherwise the call
\* returns false
RegisterPost(g, ok) ==
  /\ regPC[g] = "post"
  /\ regPosts' = regPosts + 1
  /\ IF ok
     THEN /\ registrations' = registrations + 1
          /\ regLocal' = [regLocal EXCEPT ![g] = registrations + 1]
          /\ regPC' = [regPC EXCEPT ![g] = "store"]
          /\ UNCHANGED regResult
     ELSE /\ regPC' = [regPC EXCEPT ![g] = "idle"]
          /\ regResult' = "false"
          /\ UNCHANGED <<registrations, regLocal>>
  /\ UNCHANGED <<poolVars, jobVars, progressVars, pollVars, config, configFile,
                 RegistrationToken, regIO, cachedConfig>>

\* os.WriteFile, p.config = &config and return true
RegisterStore(g) ==
  /\ regPC[g] = "store"
  /\ configFile' = "valid"
  /\ config' = TRUE
  /\ cachedConfig' = regLocal[g]
  /\ regLocal' = [regLocal EXCEPT ![g] = 0]
  /\ regPC' = [regPC EXCEPT ![g] = "idle"]
  /\ regResult' = "true"
  /\ UNCHANGED <<poolVars, jobVars, progressVars, pollVars, RegistrationToken,
                 regPosts, regIO, registrations>>

\* the runner process is started again: nothing is cached, the file stays
RunnerRestart ==
  /\ regResult # "none"
  /\ regResult' = "none"
  /\ config' = FALSE
  /\ UNCHANGED <<poolVars, jobVars, progressVars, pollVars, configFile,
                 RegistrationToken, regPosts, regIO, raceVars>>

(* --------------------------- specification ------------------------------ *)

\* API callers submitting tasks
Submit ==
  \/ \E tpl \in Templates, ok \in BOOLEAN : AddTaskCreate(tpl, ok)
  \/ \E t \in Tasks : AddTaskFail(t)

\* the register and ticker cases of the control loop
Loop ==
  \/ \E t \in Tasks : RegisterCase(t)
  \/ RegisterAppend
  \/ RegisterLog
  \/ \E e \in BOOLEAN : Tick(e)
  \/ SendLock
  \/ StartRun

\* the resource locker goroutine
Locker ==
  \/ \E e \in BOOLEAN : LockerLock(e)
  \/ \E t \in Tasks : LockerUnlock(t)

\* the goroutines started by go t.run()
Run ==
  \/ \E t \in Tasks : RunStart(t)
  \/ \E t \in Tasks : JobSetRunning(t)
  \/ \E t \in Tasks, e \in BOOLEAN : JobExit(t, e)

\* API callers stopping tasks
Stop == \E t \in Tasks, f \in BOOLEAN, ok \in BOOLEAN : StopTask(t, f, ok)

\* The task pool with submissions, admission, runs and stop requests; the
\* store accepts every log write and the jobs print nothing.
Next == Submit \/ Loop \/ LoggerCase(FALSE) \/ Locker \/ Run \/ Stop

Spec == Init /\ [][Next]_vars

\* The log path: jobs print lines and the store may fail a log write; all
\* limits are off and nobody calls StopTask.
InitLog ==
  /\ MaxParallelTasks = MaxGlobalLimit
  /\ projectLimit = [p \in Projects |-> 0]
  /\ PoolInit
  /\ VersionInit
  /\ EnvInit
  /\ OneOff = FALSE
  /\ RunnerInit

NextLog ==
  \/ Submit
  \/ Loop
  \/ \E e \in BOOLEAN : LoggerCase(e)
  \/ Locker
  \/ Run
  \/ \E t \in Tasks : JobLog(t)

SpecLog == InitLog /\ [][NextLog]_vars

\* The runner process: replies of the controller, the queue tick and the
\* execution goroutines; the controller process is not used.
InitRunner ==
  /\ MaxParallelTasks = 0
  /\ projectLimit = [p \in Projects |-> 0]
  /\ PoolInit
  /\ VersionInit
  /\ EnvInit
  /\ OneOff \in BOOLEAN
  /\ RunnerInit

\* replies of GET /runners/<id>: current_jobs with up to two entries <<id,
\* status>>, new_jobs with up to two job ids
CurrentJobsReplies ==
  {<<>>} \cup {<<e>> : e \in JobIDs \X CurrentJobStatuses}
         \cup {<<e, f>> : e \in JobIDs \X CurrentJobStatuses,
                          f \in JobIDs \X CurrentJobStatuses}
NewJobsReplies == {<<>>} \cup {<<id>> : id \in JobIDs}
                  \cup {<<a, b>> : a \in JobIDs, b \in JobIDs}

NextRunner ==
  \/ \E cur \in CurrentJobsReplies, new \in NewJobsReplies : checkNewJobs(cur, new)
  \/ QueueTick
  \/ RequestTickExit
  \/ \E k \in 1..MaxStarts : ExecStart(k)
  \/ \E k \in 1..MaxStarts, err \in BOOLEAN : ExecReturn(k, err)

SpecRunner == InitRunner /\ [][NextRunner]_vars

\* The runner while one job is inside job.Run and prints: Log2 calls of the
\* job against the progress uploads of the request tick.
InitProgress ==
  /\ MaxParallelTasks = 0
  /\ projectLimit = [p \in Projects |-> 0]
  /\ PoolInit
  /\ VersionInit
  /\ EnvInit
  /\ OneOff = FALSE
  /\ jobQueue = <<>>
  /\ jobObjs = <<[id |-> 1, status |-> TaskRunningStatus, killed |-> FALSE,
                  pc |-> "run"]>>
  /\ runningJobs = [id \in JobIDs |-> IF id = 1 THEN 1 ELSE 0]
  /\ exited = FALSE
  /\ ProgressInit
  /\ RegisteredInit

NextProgress ==
  \/ Log2Read
  \/ Log2Write
  \/ ProgressSnapshot
  \/ ProgressReset
  \/ \E ok \in BOOLEAN : ProgressPut(ok)

SpecProgress == InitProgress /\ [][NextProgress]_vars

\* A one-off runner from its start: one reply of the controller hands out
\* job 1, alone or with job 2 behind it; the queue tick starts the jobs, job
\* 1 prints, the request ticks upload the progress and decide on the exit.
InitOneOff ==
  /\ MaxParallelTasks = 0
  /\ projectLimit = [p \in Projects |-> 0]
  /\ PoolInit
  /\ VersionInit
  /\ EnvInit
  /\ OneOff = TRUE
  /\ RunnerInit

\* new_jobs of the reply the one-off runner pulls its jobs from
OneOffReplies == {<<1>>, <<1, 2>>}

NextOneOff ==
  \/ \E new \in OneOffReplies : checkNewJobs(<<>>, new)
  \/ QueueTick
  \/ \E k \in 1..MaxStarts : ExecStart(k)
  \/ \E k \in 1..MaxStarts, err \in BOOLEAN : ExecReturn(k, err)
  \/ Log2Read
  \/ Log2Write
  \/ RequestTickGo
  \/ RequestTickCheck
  \/ SendProgressGo
  \/ SendProgressEmpty
  \/ ProgressReset
  \/ \E ok \in BOOLEAN : ProgressPut(ok)

SpecOneOff == InitOneOff /\ [][NextOneOff]_vars

\* The runner with checkNewJobs as the goroutine the request tick starts:
\* its enqueue against the queue tick and the execution goroutines.
InitPoll ==
  /\ MaxParallelTasks = 0
  /\ projectLimit = [p \in Projects |-> 0]
  /\ PoolInit
  /\ VersionInit
  /\ EnvInit
  /\ OneOff = FALSE
  /\ RunnerInit

NextPoll ==
  \/ \E id \in JobIDs : PollAppendRead(id)
  \/ PollAppendWrite
  \/ QueueTick
  \/ \E k \in 1..MaxStarts : ExecStart(k)
  \/ \E k \in 1..MaxStarts, err \in BOOLEAN : ExecReturn(k, err)

SpecPoll == InitPoll /\ [][NextPoll]_vars

\* The registration handshake of a runner process that starts with nothing
\* cached, under every state of its config file and token.
InitRegister ==
  /\ MaxParallelTasks = 0
  /\ projectLimit = [p \in Projects |-> 0]
  /\ PoolInit
  /\ VersionInit
  /\ EnvInit
  /\ OneOff = FALSE
  /\ jobQueue = <<>>
  /\ jobObjs = <<>>
  /\ runningJobs = [id \in JobIDs |-> 0]
  /\ exited = FALSE
  /\ ProgressInit
  /\ config = FALSE
  /\ configFile \in {"absent", "valid", "corrupt"}
  /\ RegistrationToken \in BOOLEAN
  /\ regResult = "none"
  /\ regPosts = 0
  /\ regIO \in RegisterIO
  /\ RaceInit

NextRegister ==
  \/ Register
  \/ RunnerRestart

SpecRegister == InitRegister /\ [][NextRegister]_vars

\* A runner process that starts without config file, with a registration
\* token: the goroutines of its request ticks call tryRegisterRunner beside
\* each other.
InitRace ==
  /\ MaxParallelTasks = 0
  /\ projectLimit = [p \in Projects |-> 0]
  /\ PoolInit
  /\ VersionInit
  /\ EnvInit
  /\ OneOff = FALSE
  /\ jobQueue = <<>>
  /\ jobObjs = <<>>
  /\ runningJobs = [id \in JobIDs |-> 0]
  /\ exited = FALSE
  /\ ProgressInit
  /\ config = FALSE
  /\ configFile = "absent"
  /\ RegistrationToken = TRUE
  /\ regResult = "none"
  /\ regPosts = 0
  /\ regIO = [statErr |-> FALSE, readOk |-> TRUE, reqOk |-> TRUE, doOk |-> TRUE,
              status200 |-> TRUE, bodyOk |-> TRUE, parseOk |-> TRUE,
              writeOk |-> TRUE]
  /\ RaceInit

NextRace ==
  \/ \E g \in Callers : RegisterEnter(g)
  \/ \E g \in Callers, ok \in BOOLEAN : RegisterPost(g, ok)
  \/ \E g \in Callers : RegisterStore(g)

SpecRace == InitRace /\ [][NextRace]_vars

\* AddTask deriving the version of a build task, for every start version
\* and every version of the latest build.
InitVersion ==
  /\ MaxParallelTasks = 0
  /\ projectLimit = [p \in Projects |-> 0]
  /\ PoolInit
  /\ OneOff = FALSE
  /\ RunnerInit
  /\ startVersion \in Strings
  /\ currentVersion \in Strings \cup {NilVersion}
  /\ taskVersion = NoVersion
  /\ EnvInit

NextVersion == AddTaskVersion

SpecVersion == InitVersion /\ [][NextVersion]_vars

(* -------------------------- locker specification ------------------------ *)

\* The task pool with submissions, admission and runs, and with callers that
\* run a task without admission; nobody calls StopTask.
NextLocker ==
  \/ Submit \/ Loop \/ LoggerCase(FALSE) \/ Locker \/ Run
  \/ \E tpl \in Templates : RunWithoutAdmission(tpl)

SpecLocker == Init /\ [][NextLocker]_vars

(* ----------------------- specification with fairness -------------------- *)

\* The pool at work for a long time: every row holds a task that has run
\* and left the pool, and new tasks of template 1 keep being submitted in
\* their place; the global limit alone would let two of them run. Nobody
\* calls StopTask.
InitFair ==
  /\ MaxParallelTasks = MaxGlobalLimit
  /\ projectLimit = [p \in Projects |-> 0]
  /\ nextID = MaxRows + 1
  /\ taskProject = [t \in Tasks |-> 1]
  /\ taskTemplate = [t \in Tasks |-> 1]
  /\ status = [t \in Tasks |-> TaskSuccessStatus]
  /\ dbStatus = [t \in Tasks |-> TaskSuccessStatus]
  /\ addPC = [t \in Tasks |-> "done"]
  /\ queue = <<>>
  /\ activeProj = <<>>
  /\ runningTasks = {}
  /\ logger = <<>>
  /\ logCount = [t \in Tasks |-> 0]
  /\ outputs = [t \in Tasks |-> <<>>]
  /\ events = {}
  /\ loopPC = "select"
  /\ loopTask = 0
  /\ lockRecord = 0
  /\ unlockPending = {}
  /\ runPC = [t \in Tasks |-> "done"]
  /\ killed = {}
  /\ panicked = FALSE
  /\ VersionInit
  /\ EnvInit
  /\ OneOff = FALSE
  /\ RunnerInit

NextFair ==
  \/ \E t \in Tasks : AddTaskAgain(t, 1)
  \/ Loop
  \/ LoggerCase(FALSE)
  \/ Locker
  \/ Run

\* The select of the control loop chooses among its ready cases at random,
\* so a case that is ready again and again is taken (the ticker keeps
\* firing); inside a handler the loop goes on. The locker goroutine applies
\* the record it holds, and the senders blocked on its channel are served
\* in turn. A started run() goes on and its Job returns.
Fairness ==
  /\ SF_vars(\E e \in BOOLEAN : Tick(e))
  /\ SF_vars(LoggerCase(FALSE))
  /\ \A t \in Tasks : SF_vars(RegisterCase(t))
  /\ WF_vars(RegisterAppend)
  /\ WF_vars(RegisterLog)
  /\ WF_vars(SendLock)
  /\ WF_vars(StartRun)
  /\ WF_vars(\E e \in BOOLEAN : LockerLock(e))
  /\ \A t \in Tasks : SF_vars(LockerUnlock(t))
  /\ \A t \in Tasks : WF_vars(RunStart(t))
  /\ \A t \in Tasks : WF_vars(JobSetRunning(t))
  /\ \A t \in Tasks : WF_vars(\E e \in BOOLEAN : JobExit(t, e))

SpecFair == InitFair /\ [][NextFair]_vars /\ Fairness

(* ------------------------ environment specification ---------------------- *)

\* populateDetails for every template environment and every task
\* environment over EnvKeys and EnvValues.
InitEnv ==
  /\ MaxParallelTasks = 0
  /\ projectLimit = [p \in Projects |-> 0]
  /\ PoolInit
  /\ VersionInit
  /\ OneOff = FALSE
  /\ RunnerInit
  /\ templateEnvironment \in JSONObjects
  /\ taskEnvironment \in JSONObjects
  /\ Environment = NoJSON

NextEnv == PopulateDetails

SpecEnv == InitEnv /\ [][NextEnv]_vars

(* ======================================================================= *)
(* Properties                                                              *)
(* ======================================================================= *)

\* C1: in every reachable state the number of tasks in runningTasks is at
\* most util.Config.MaxParallelTasks.
C1_GlobalLimit == Cardinality(runningTasks) <= MaxParallelTasks

\* the global limit is reached while a queued task of an idle project waits
C1_Witness ==
  /\ MaxParallelTasks >= 1
  /\ Cardinality(runningTasks) = MaxParallelTasks
  /\ \E t \in Range(queue) : ProjectTasks(taskProject[t]) = {}

\* C2: any two distinct tasks active in the same project have different
\* template ids.
C2_OneActivePerTemplate ==
  \A p \in DOMAIN activeProj : \A a \in activeProj[p], b \in activeProj[p] :
    a # b => taskTemplate[a] # taskTemplate[b]

\* a task is active while a task of the same project and template is queued
\* and the global limit leaves room
C2_Witness ==
  /\ Cardinality(runningTasks) < MaxParallelTasks
  /\ \E a \in runningTasks : \E q \in Range(queue) :
       /\ a \in ProjectTasks(taskProject[a])
       /\ taskProject[q] = taskProject[a]
       /\ taskTemplate[q] = taskTemplate[a]

\* C3: for every project whose MaxParallelTasks limit L is greater than 0,
\* activeProj[P] holds at most L tasks, whatever GetProject returns during
\* admission.
C3_ProjectLimit ==
  \A p \in Projects :
    projectLimit[p] > 0 => Cardinality(ProjectTasks(p)) <= projectLimit[p]

\* C4: each TaskRunner is in the queue, or in both activeProj[project][id]
\* and runningTasks[id], or in neither; never in the queue and in the running
\* maps at the same time.
C4_ExactlyOnePlace ==
  \A t \in Tasks :
    \/ InQueue(t) /\ t \notin runningTasks /\ ~InActiveProj(t)
    \/ ~InQueue(t) /\ t \in runningTasks /\ t \in ProjectTasks(taskProject[t])
    \/ ~InQueue(t) /\ t \notin runningTasks /\ ~InActiveProj(t)

\* C5: every task present in runningTasks has status Starting, Running or
\* Stopping.
C5_RunningStatus ==
  \A t \in runningTasks :
    status[t] \in {TaskStartingStatus, TaskRunningStatus, TaskStoppingStatus}

\* C6: once a task's or job's status is finished (Stopped, Success or Fail)
\* no later status write changes it, on the runner neither the final write of
\* the execution goroutine nor the overwrite from current_jobs.
C6_FinishedIsFinal ==
  [][/\ \A t \in Tasks : IsFinished(status[t]) => status'[t] = status[t]
     /\ \A k \in 1..Len(jobObjs) :
          IsFinished(jobObjs[k].status) => jobObjs'[k].status = jobObjs[k].status]_vars

\* C7: every status change of a task follows an allowed edge of the status
\* graph (the creation of the task in Waiting aside).
C7_AllowedEdges ==
  [][\A t \in Tasks :
       status'[t] # status[t] =>
         \/ status[t] = NoStatus /\ status'[t] = TaskWaitingStatus
         \/ <<status[t], status'[t]>> \in AllowedEdges]_vars

IsIncreasing(s) == \A i \in 1..Len(s), j \in 1..Len(s) : i < j => s[i] < s[j]

\* C8: for each task, the log records persisted by the control loop appear
\* in the store in the order in which the task enqueued them on the logger
\* channel.
C8_LogOrder == \A t \in Tasks : IsIncreasing(outputs[t])

\* both records of one task are in the store, and a record of another task
\* was written too
C8_Witness ==
  \E t \in Tasks, u \in Tasks :
    t # u /\ Len(outputs[t]) = 2 /\ Len(outputs[u]) >= 1

\* C9: with util.Config.MaxParallelTasks = 0 the global limit is off: a queue
\* head that has no active task of its template in its project and whose
\* project limit is not reached is not blocked at the admission tick.
C9_ZeroIsUnlimited ==
  (/\ MaxParallelTasks = 0
   /\ queue # <<>>
   /\ status[Head(queue)] # TaskFailStatus
   /\ \A r \in ProjectTasks(taskProject[Head(queue)]) :
        taskTemplate[r] # taskTemplate[Head(queue)]
   /\ \/ projectLimit[taskProject[Head(queue)]] = 0
      \/ Cardinality(ProjectTasks(taskProject[Head(queue)]))
           < projectLimit[taskProject[Head(queue)]])
  => ~blocks(Head(queue), FALSE)

\* tasks StopTask can be called on and does not find in the pool
NotActive(t) == dbStatus[t] # NoStatus /\ GetTask(t) = 0

\* C10 as stated: StopTask on a task that is neither in the queue nor in
\* runningTasks sets the task's status to Stopped, emits a task event and
\* returns no error.
C10_StopNotActive ==
  \A t \in Tasks, f \in BOOLEAN, ok \in BOOLEAN :
    NotActive(t) =>
      /\ StopTaskStatus(t, f, ok) = TaskStoppedStatus
      /\ <<t, "task">> \in StopTaskEvents(t, f, ok)
      /\ ~StopTaskErr(t, ok)

\* C10 amended: on such a task, when populateDetails succeeds StopTask
\* returns no error, emits a task event and leaves the status Stopped unless
\* the task was already finished, whose status stays; when populateDetails
\* fails StopTask returns that error, and changes no status and emits no
\* event.
C10_StopNotActiveAmended ==
  \A t \in Tasks, f \in BOOLEAN :
    NotActive(t) =>
      /\ ~StopTaskErr(t, TRUE)
      /\ <<t, "task">> \in StopTaskEvents(t, f, TRUE)
      /\ StopTaskStatus(t, f, TRUE) =
           IF IsFinished(dbStatus[t]) THEN dbStatus[t] ELSE TaskStoppedStatus
      /\ StopTaskErr(t, FALSE)
      /\ StopTaskEvents(t, f, FALSE) = events
      /\ StopTaskStatus(t, f, FALSE) = dbStatus[t]

\* a task whose runner still waits in memory while its row was stopped by a
\* StopTask call that did not find it in the pool
C10_Witness ==
  \E t \in Tasks :
    /\ NotActive(t)
    /\ status[t] = TaskWaitingStatus
    /\ dbStatus[t] = TaskStoppedStatus
    /\ <<t, "task">> \in events

\* C11: StopTask on an active task (found in the queue or in runningTasks)
\* whose status is Waiting, Starting, Running or Stopping sets the status to
\* Stopping, or to Stopped with forceStop, and calls kill on the task's Job.
C11_StopActiveKills ==
  \A t \in Tasks, f \in BOOLEAN :
    (/\ dbStatus[t] # NoStatus
     /\ GetTask(t) # 0
     /\ status[t] \in {TaskWaitingStatus, TaskStartingStatus,
                       TaskRunningStatus, TaskStoppingStatus})
    => /\ StopTaskStatus(t, f, TRUE) =
            (IF f THEN TaskStoppedStatus ELSE TaskStoppingStatus)
       /\ StopTaskKills(t)

\* the runner of task t is somewhere in the pool: handed to the control
\* loop, queued, locked, in the running maps or run by a goroutine
InPool(t) ==
  \/ loopTask = t
  \/ InQueue(t)
  \/ lockRecord = t
  \/ t \in runningTasks
  \/ InActiveProj(t)
  \/ runPC[t] # "none"

\* C12: when populateDetails fails inside AddTask, AddTask returns the error
\* with the runner's status Fail and without sending the runner on the
\* register channel: the runner never is in the queue or in runningTasks.
C12_PopulateFailure ==
  /\ [](\A t \in Tasks :
          addPC[t] \in {"populateErr", "failed"} =>
            /\ ~InPool(t)
            /\ addPC[t] = "failed" => status[t] = TaskFailStatus)
  /\ [][\A t \in Tasks :
          addPC[t] \in {"populateErr", "failed"} =>
            addPC'[t] \in {"populateErr", "failed"}]_vars

\* AddTask returned the populateDetails error for one task while another
\* task went through the queue
C12_Witness ==
  \E t \in Tasks, u \in Tasks :
    /\ addPC[t] = "failed"
    /\ status[t] = TaskFailStatus
    /\ addPC[u] = "done"
    /\ InPool(u)

\* jobs the runner has taken from the controller so far: those waiting in
\* the queue and those the queue tick has started
JobsTaken == Len(jobQueue) + Len(jobObjs)

\* C13: a runner configured with one_off takes exactly one job from the
\* controller over its whole lifetime, also when new_jobs lists several jobs,
\* and has taken and finished one when the process exits.
C13_OneOffOneJob ==
  OneOff =>
    /\ JobsTaken <= 1
    /\ exited => (JobsTaken = 1 /\ jobQueue = <<>>)

\* C14: when job.Run returns on the runner and the job's status is not
\* finished, the execution goroutine sets Stopped if and only if the status
\* was Stopping at that moment; otherwise Success when Run returned no error
\* and Fail when it returned an error.
C14_ExecFinalStatus ==
  \A k \in 1..Len(jobObjs), err \in BOOLEAN :
    (jobObjs[k].pc = "run" /\ ~IsFinished(jobObjs[k].status)) =>
      ExecFinalStatus(jobObjs[k].status, err) =
        (IF jobObjs[k].status = TaskStoppingStatus THEN TaskStoppedStatus
         ELSE IF err THEN TaskFailStatus
         ELSE TaskSuccessStatus)

\* number of times record r occurs in the sequence s
Count(r, s) == Cardinality({i \in 1..Len(s) : s[i] = r})

\* C15: under any interleaving of a job's Log2 appends with sendProgress's
\* snapshot and reset of its logRecords, every appended record is in exactly
\* one snapshot or still in the buffer: none is lost, none is taken twice.
C15_SnapshotExactlyOnce ==
  \A r \in 1..logEmitted : Count(r, snapshots) + Count(r, logRecords) = 1

\* C17: the records carried by a progress request whose PUT failed are sent
\* again: once the request is over, every record that was in a snapshot is in
\* a PUT that succeeded or back in the buffer for the next request.
C17_FailedPutResent ==
  progPC = "idle" =>
    \A i \in 1..Len(snapshots) :
      Count(snapshots[i], delivered) + Count(snapshots[i], logRecords) >= 1

\* C16: JobPool.queue is written by the control loop only, so that every
\* change of the queue is a pop of its head or an append to what it held: no
\* enqueued job is lost and no popped job comes back.
C16_QueueWrites ==
  [][\/ jobQueue' = jobQueue
     \/ jobQueue # <<>> /\ jobQueue' = Tail(jobQueue)
     \/ \E id \in JobIDs :
          jobQueue' = Append(jobQueue, [id |-> id, status |-> NoStatus])]_vars

\* C18: tryRegisterRunner returns true without a request when a config is
\* cached or the config file exists, caching it; otherwise it panics when the
\* registration token is empty; otherwise it POSTs, and only on status 200
\* with a parsable body it writes the config file, caches the config and
\* returns true; on a transport error, another status or an unparsable body
\* it returns false with nothing cached and no file written.
C18_TryRegisterRunner ==
  \A io \in RegisterIO :
    LET r == tryRegisterRunner(io) IN
    IF config \/ configFile # "absent"
    THEN r = RegisterResult("true", FALSE, TRUE, configFile)
    ELSE IF ~RegistrationToken THEN r.ret = "panic"
    ELSE IF io.doOk /\ io.status200 /\ io.bodyOk /\ io.parseOk
    THEN io.reqOk => r = RegisterResult("true", TRUE, TRUE, "valid")
    ELSE /\ r.ret = "false"
         /\ r.config = FALSE
         /\ r.configFile = "absent"

\* positions of the current_jobs list curs whose id is that of the job
\* runningJobs maps to object k
Listed(curs, k) ==
  {i \in 1..Len(curs) : runningJobs[curs[i][1]] = k}

C20_NextBuildVersion ==
  (taskVersion # NoVersion /\ currentVersion # NilVersion) =>
    LET m == FindStringSubmatch(startVersion) IN
    IF m = <<>> THEN taskVersion = startVersion
    ELSE IF \E mid \in Strings :
              currentVersion = m[2] \o mid \o m[4] /\ Atoi(mid).ok
    THEN LET mid == SubSeq(currentVersion, Len(m[2]) + 1,
                           Len(currentVersion) - Len(m[4]))
             next == IF Atoi(m[3]).val > Atoi(mid).val + 1 THEN Atoi(m[3]).val
                     ELSE Atoi(mid).val + 1
         IN taskVersion = m[2] \o Itoa(next) \o m[4]
    ELSE taskVersion = startVersion

\* C21: populateDetails leaves in Environment.JSON an object whose keys are
\* the union of the keys of the template's environment and of the task's
\* Environment, and a key present in both carries the task's value.
C21_EnvironmentMerge ==
  Environment # NoJSON =>
    /\ DOMAIN Environment = DOMAIN templateEnvironment \cup DOMAIN taskEnvironment
    /\ \A k \in DOMAIN Environment :
         Environment[k] = IF k \in DOMAIN taskEnvironment
                          THEN taskEnvironment[k] ELSE templateEnvironment[k]

\* the key set alone: the union of both key sets
C21_EnvironmentKeys ==
  Environment # NoJSON =>
    DOMAIN Environment = DOMAIN templateEnvironment \cup DOMAIN taskEnvironment

\* the input of TestPopulateDetails has been merged: "comment" is in both
\* objects with different values
C21_Witness ==
  /\ Environment # NoJSON
  /\ templateEnvironment = [author |-> "Denis", comment |-> "Hello, World!"]
  /\ taskEnvironment = [comment |-> "Just do it!", time |-> "2021-11-02"]
  /\ Environment = [author |-> "Denis", comment |-> "Hello, World!",
                    time |-> "2021-11-02"]

\* the status StopTask works on: the runner's when the task is found in the
\* pool, the persisted row's otherwise
StopTaskCur(t) == IF GetTask(t) = 0 THEN dbStatus[t] ELSE status[t]

\* a step in which a StopTask call acted on task t: the call left a status,
\* an event or a kill, and no goroutine of the pool moved
StoppedIn(t) ==
  /\ loopPC' = loopPC
  /\ runPC' = runPC
  /\ addPC' = addPC
  /\ \/ status'[t] # status[t]
     \/ dbStatus'[t] # dbStatus[t]
     \/ events' # events
     \/ killed' # killed

\* C22 as stated: after a StopTask(task, forceStop) call, a second call with
\* the same arguments returns nil and leaves the task's status, the queue
\* and the admission maps as the first call left them, for an active and for
\* a non-active task.
C22_StopIdempotent ==
  [][\A t \in Tasks :
       StoppedIn(t) =>
         \A f \in BOOLEAN, ok1 \in BOOLEAN :
           StopTask(t, f, ok1) =>
             /\ UNCHANGED <<queue, activeProj, runningTasks>>
             /\ \A ok2 \in BOOLEAN :
                  /\ (~StopTaskErr(t, ok2))'
                  /\ (StopTaskStatus(t, f, ok2) = StopTaskCur(t))']_vars

\* C22 amended: a second call with the same arguments leaves the task's
\* status, the queue and the admission maps as the first call left them; it
\* returns nil for an active task, and for a non-active task it returns nil
\* when populateDetails succeeds and the error of populateDetails when that
\* fails.
C22_StopIdempotentAmended ==
  [][\A t \in Tasks :
       StoppedIn(t) =>
         \A f \in BOOLEAN, ok1 \in BOOLEAN :
           StopTask(t, f, ok1) =>
             /\ UNCHANGED <<queue, activeProj, runningTasks>>
             /\ (~StopTaskErr(t, TRUE))'
             /\ (StopTaskErr(t, FALSE) <=> GetTask(t) = 0)'
             /\ \A ok2 \in BOOLEAN :
                  (StopTaskStatus(t, f, ok2) = StopTaskCur(t))']_vars

\* a graceful stop has acted on a running task that is still in the pool,
\* and a stop on a task outside the pool
C22_Witness ==
  \E a \in Tasks, n \in Tasks :
    /\ GetTask(a) # 0
    /\ status[a] = TaskStoppingStatus
    /\ a \in killed
    /\ NotActive(n)
    /\ dbStatus[n] = TaskStoppedStatus
    /\ <<n, "task">> \in events

C24_MapsAgree ==
  /\ runningTasks = UNION {activeProj[p] : p \in DOMAIN activeProj}
  /\ \A p \in DOMAIN activeProj :
       /\ activeProj[p] # {}
       /\ \A t \in activeProj[p] : taskProject[t] = p

\* the locker has processed the unlock of a task that ran without admission
\* while a task of the same project holds a lock
C24_Witness ==
  \E t \in Tasks, r \in runningTasks :
    /\ addPC[t] = "none"
    /\ runPC[t] = "done"
    /\ t \notin unlockPending
    /\ taskProject[r] = taskProject[t]

\* C27: the panic of the resource locker is unreachable: whenever the locker
\* processes a lock record of the admission pass, blocks(holder) is false,
\* under every interleaving of the control loop, the locker and the runs.
C27_NoLockerPanic == ~panicked

\* C28: from the return of a successful AddTask until the task has a
\* finished status, GetTask(id) finds the task: it is in the queue or in
\* runningTasks at every moment in between.
C28_GetTaskNeverNil ==
  \A t \in Tasks :
    (addPC[t] = "done" /\ ~IsFinished(status[t])) => GetTask(t) # 0

\* C28, the window of the admission alone: a task whose run() was started and
\* that has no finished status is in runningTasks
C28_StartedIsRunning ==
  \A t \in Tasks :
    (runPC[t] # "none" /\ ~IsFinished(status[t])) => t \in runningTasks

\* C29: a queued task whose status StopTask has set to Stopping or Stopped
\* is not admitted: no tick that finds it at the head of the queue goes on
\* to send a lock record for it and to start its run().
C29_StoppedNotAdmitted ==
  [][(loopPC = "select" /\ loopPC' = "lockSend") =>
       status[Head(queue)] \notin {TaskStoppingStatus, TaskStoppedStatus}]_vars

\* C26: the control loop never blocks forever. The log send of the register
\* handler goes to the logger channel, which the loop alone drains, and that
\* only from its select: the send completes only if the buffer has room when
\* the handler reaches it.
C26_LoopNeverBlocks ==
  loopPC = "registerLog" => Len(logger) < LoggerCap

\* C30: under fairness every task that is in the queue with a status other
\* than Fail is eventually admitted (its run() is started), while other
\* tasks of the same project or template keep being submitted. A process
\* ended by the locker's panic and a control loop blocked at the log send of
\* the register handler are left aside.
C30_QueuedIsAdmitted ==
  \A t \in Tasks :
    (InQueue(t) /\ status[t] # TaskFailStatus)
      ~> \/ runPC[t] = "start"
         \/ panicked
         \/ loopPC = "registerLog" /\ Len(logger) >= LoggerCap

\* C25: the locker processes the lock record of an admitted task before the
\* task's unlock record. Once the run() of an admitted task has ended and
\* its unlock record has been taken, the task is in neither activeProj nor
\* runningTasks; and every task in the maps whose run() has ended is
\* eventually out of both, as long as the process lives.
C25_FinishedIsRemoved ==
  /\ [](\A t \in Tasks :
          (runPC[t] = "done" /\ t \notin unlockPending) =>
            (t \notin runningTasks /\ ~InActiveProj(t) /\ lockRecord # t))
  /\ \A t \in Tasks :
       (runPC[t] = "done" /\ (t \in runningTasks \/ InActiveProj(t) \/ lockRecord = t))
         ~> ((t \notin runningTasks /\ ~InActiveProj(t)) \/ panicked)

\* the run() of an admitted task has ended before the locker has applied
\* the task's lock record, while another task waits in the queue
C25_Witness ==
  \E t \in Tasks :
    /\ runPC[t] = "done"
    /\ lockRecord = t
    /\ t \in unlockPending
    /\ queue # <<>>

\* every job id is at most once in the queue, never in the queue and in
\* runningJobs at once, and has at most one runningJob object
JobsOnce ==
  /\ \A i \in 1..Len(jobQueue), j \in 1..Len(jobQueue) :
       i # j => jobQueue[i].id # jobQueue[j].id
  /\ \A i \in 1..Len(jobQueue) : runningJobs[jobQueue[i].id] = 0
  /\ \A id \in JobIDs :
       Cardinality({k \in 1..Len(jobObjs) : jobObjs[k].id = id}) <= 1

\* a new_jobs list that names each job once
ListsOnce(newJobs) ==
  \A i \in 1..Len(newJobs), j \in 1..Len(newJobs) : i # j => newJobs[i] # newJobs[j]

\* C31: on the runner a job id is enqueued at most once and executed at most
\* once per process. No poll whose reply names each new job once enqueues a
\* job whose id is already in the queue or in runningJobs, whatever polls
\* came before it and whether or not the queue tick has moved the job into
\* runningJobs; and no start of the queue tick overwrites an entry of
\* runningJobs.
C31_EnqueuedOnce ==
  [][/\ (JobsOnce /\ jobQueue' # jobQueue /\ Len(jobQueue') > Len(jobQueue)) =>
          \A cur \in CurrentJobsReplies, new \in NewJobsReplies :
            (ListsOnce(new) /\ checkNewJobs(cur, new)) => JobsOnce'
     /\ (runningJobs' # runningJobs) =>
          \A id \in JobIDs :
            runningJobs'[id] # runningJobs[id] => runningJobs[id] = 0]_vars

\* C32: the runner performs at most one successful registration POST per
\* process lifetime, and once p.config is set it never changes, also when
\* goroutines of the request ticks call tryRegisterRunner beside each other
\* while no config file exists.
C32_RegistersOnce ==
  /\ [](registrations <= 1)
  /\ [][config => (config' /\ cachedConfig' = cachedConfig)]_vars

\* C33: a one-off runner exits only after a progress upload that carries
\* the finished status of the job and all of its log records has completed:
\* the exit of a request tick does not pre-empt the sendProgress goroutine
\* that the tick started, and no pulled job is waiting in the queue then.
C33_ExitAfterUpload ==
  exited =>
    /\ progPC = "idle"
    /\ IsFinished(deliveredStatus)
    /\ delivered = [i \in 1..logEmitted |-> i]
    /\ jobQueue = <<>>

====
